---- MODULE Spec2Model ----
(***************************************************************************)
(* State-machine model of javsp/web/translate.py: the provider-fallback    *)
(* translation orchestrator (translate_movie_info, translate_with_providers,*)
(* translate_with_openai_compatible, test_translation_providers and        *)
(* google_trans with its process-wide back-off state).                     *)
(*                                                                         *)
(* Text is a sequence of characters.  A character is a one-element string  *)
(* name: the Latin letters and punctuation stand for themselves, "han_*"   *)
(* stands for one CJK ideograph, "kana_*" for one kana, " " for a blank.   *)
(***************************************************************************)
EXTENDS Integers, Sequences, FiniteSets, TLC

\* An optional value is a tuple of length 0 (Python's None, or an attribute that
\* was never set) or 1.
None == <<>>
Some(x) == <<x>>

\* ---------------------------------------------------------------- bounds
MaxProviders == 3      \* longest configured provider list
MaxThrottled == 3      \* 429 responses the endpoint gives in one run of google_trans calls
MaxCalls == 2          \* google_trans calls in one run of google_trans calls
ProgramThrottled == 2  \* 429 responses the endpoint gives in one run of the program
MaxOps == 1            \* top-level operations started in one run of the program
MaxRunOps == 3         \* top-level calls made in a row in one run of such calls
MaxRunThrottled == 4   \* 429 responses the endpoint gives in one run of such calls
MaxLen == 3            \* longest text drawn for the text functions
MaxWorkers == 2         \* threads that run google_trans at the same time
MaxWorkerThrottled == 4 \* 429 responses the endpoint gives to those threads together
MaxEntities == 2       \* longest list of protected names drawn for them

\* ------------------------------------------------------ program constants
BaselineWait == 60     \* _google_trans_wait = 60
RandLo == 60           \* random.randint(60, 90)
RandHi == 90
Cooldown == 4          \* time.sleep(4)
TooManyRequests == 429
StatusOK == 200
ImportErrorCode == -10 \* "openai package not installed"
ExceptionCode == -11   \* except Exception as e
EmptyCode == -12       \* "Empty response from API"

\* ------------------------------------------------------------ characters
HanChars == {"han_ni", "han_hao", "han_yi", "han_wen"}
KanaChars == {"kana_ko", "kana_n", "kana_ni", "kana_chi", "kana_ha"}
SpaceChars == {" "}

\* Python's str.strip(): drop leading and trailing whitespace.
Strip(s) ==
    LET kept == { i \in 1..Len(s) : s[i] \notin SpaceChars }
    IN IF kept = {} THEN <<>>
       ELSE SubSeq(s, CHOOSE i \in kept : \A j \in kept : i <= j,
                      CHOOSE i \in kept : \A j \in kept : i >= j)

\* Python's str.startswith at offset i (1-based).
MatchAt(s, old, i) ==
    /\ i + Len(old) - 1 <= Len(s)
    /\ SubSeq(s, i, i + Len(old) - 1) = old

\* The scan of str.replace from offset i on: copy up to the next occurrence of
\* `old`, put `new` for it, go on behind it.
RECURSIVE ReplaceFrom(_, _, _, _)
ReplaceFrom(s, old, new, i) ==
    LET hits == { j \in i..Len(s) : MatchAt(s, old, j) }
    IN IF hits = {} THEN SubSeq(s, i, Len(s))
       ELSE LET j == CHOOSE h \in hits : \A k \in hits : h <= k
            IN SubSeq(s, i, j - 1) \o new \o ReplaceFrom(s, old, new, j + Len(old))

RECURSIVE Interleave(_, _, _)
Interleave(s, new, i) ==
    IF i > Len(s) THEN new ELSE new \o <<s[i]>> \o Interleave(s, new, i + 1)

\* Python's str.replace(old, new): every non-overlapping occurrence, scanning
\* left to right; an empty `old` matches before every character and at the end.
Replace(s, old, new) ==
    IF old = <<>> THEN Interleave(s, new, 1) ELSE ReplaceFrom(s, old, new, 1)

\* f"[ACTRESS:{name}]"
Token(name) == <<"[", "A", "C", "T", "R", "E", "S", "S", ":">> \o name \o <<"]">>

\* translate_with_openai_compatible, lines 155-158: the names are replaced one
\* after the other, in the order of the list.
RECURSIVE Protect(_, _)
Protect(texts, actress) ==
    IF actress = <<>> THEN texts
    ELSE Protect(Replace(texts, Head(actress), Token(Head(actress))), Tail(actress))

\* translate_with_openai_compatible, lines 183-184: the tokens are replaced
\* back one after the other, in the same order of the list.
RECURSIVE Restore(_, _)
Restore(translated, actress) ==
    IF actress = <<>> THEN translated
    ELSE Restore(Replace(translated, Token(Head(actress)), Head(actress)), Tail(actress))

\* javsp.func.is_chinese / is_japanese: the text holds a CJK ideograph / a kana.
is_chinese(text) == \E i \in 1..Len(text) : text[i] \in HanChars
is_japanese(text) == \E i \in 1..Len(text) : text[i] \in KanaChars

\* Language codes are texts too: 'zh_CN', 'zh_TW', 'en'.
zh_CN == <<"z", "h", "_", "C", "N">>
zh_TW == <<"z", "h", "_", "T", "W">>
en == <<"e", "n">>

\* target_lang.startswith('zh')
StartsWithZh(lang) == MatchAt(lang, <<"z", "h">>, 1)

should_skip_translation_AnyHan(text, target_lang) ==
    IF Strip(text) = <<>> THEN TRUE
    ELSE IF StartsWithZh(target_lang) /\ is_chinese(text) THEN TRUE
    ELSE FALSE

\* Lines 26-46: blank text is skipped; to a Chinese target, so is text that is
\* Chinese and not Japanese; nothing else is.
should_skip_translation(text, target_lang) ==
    IF text = <<>> \/ Len(Strip(text)) = 0 THEN TRUE
    ELSE IF StartsWithZh(target_lang) /\ is_chinese(text) /\ ~is_japanese(text) THEN TRUE
    ELSE FALSE

\* ------------------------------------------------------------------ state
VARIABLES
    cfg,                \* Cfg().translator: providers, fields, flags
    openai_installed,   \* whether `from openai import OpenAI` succeeds
    info,               \* the MovieInfo object being filled in
    google_trans_wait,  \* the module global _google_trans_wait
    op,                 \* the running top-level call: idle, movie, selftest, google
    pc,                 \* the position of the innermost running function
    field,              \* the field translate_movie_info is working on
    chain,              \* locals of translate_with_providers
    cresult,            \* the value translate_with_providers returned
    g,                  \* locals of google_trans, and what it did so far
    gresult,            \* the value google_trans returned
    movie,              \* translate_movie_info: entry snapshot and what it did
    selftest,           \* locals of test_translation_providers
    throttled,          \* 429 responses given so far in this run
    ops,                \* top-level calls started so far in this run
    limits,             \* how many of each this run may see
    probe,              \* a text function applied on its own: inputs and outputs
    workers             \* google_trans running in concurrent threads: their locals

vars == <<cfg, openai_installed, info, google_trans_wait, op, pc, field, chain,
          cresult, g, gresult, movie, selftest, throttled, ops, limits, probe, workers>>

\* ----------------------------------------------------- configuration, inputs
\* config.py OpenAICompatibleProvider: the provider configured at position i.
\* Position 2 has no display name, position 3 repeats the name of position 1.
ProviderAt(i) ==
    CASE i = 1 -> [name |-> "deepseek", model |-> "deepseek-chat", base_url |-> "https://a"]
      [] i = 2 -> [name |-> "", model |-> "gpt-4o", base_url |-> "https://b"]
      [] i = 3 -> [name |-> "deepseek", model |-> "deepseek-r1", base_url |-> "https://c"]
      [] OTHER -> [name |-> "openai-compatible", model |-> "gemini", base_url |-> "https://d"]

ProviderLists == { [i \in 1..n |-> ProviderAt(i)] : n \in 0..MaxProviders }

\* config.py Translator
Configs ==
    [providers : ProviderLists,
     fields_title : BOOLEAN,
     fields_plot : BOOLEAN,
     target_language : {zh_CN, en},
     title_mandatory : BOOLEAN,
     auto_detect_language : BOOLEAN]

Yiwen == <<"han_yi", "han_wen">>
TitleJa == <<"kana_ko", "han_ni">>
TitleZh == <<"han_ni", "han_hao">>
PlotJa == <<"kana_ha", " ", "kana_ko">>
Blank == <<" ">>
ActressKo == <<"kana_ko">>

PlotZh == <<"han_hao">>

\* The MovieInfo a scraper hands over: nothing translated yet.
Scraped(t, p, a) ==
    [title |-> t, plot |-> p, actress |-> a, ori_title |-> None, ori_plot |-> None,
     ori_title_break |-> None, title_break |-> None]

Infos ==
    { Scraped(TitleJa, PlotJa, <<ActressKo>>),
      Scraped(TitleJa, PlotZh, <<>>),
      Scraped(TitleZh, PlotJa, <<ActressKo>>),
      Scraped(TitleZh, PlotZh, <<>>),
      Scraped(Blank, <<>>, <<>>) }

\* What the endpoint of google_trans may answer to one GET.
SentenceBody(texts) ==
    [sentences |-> << [orig |-> texts, trans |-> <<"han_yi">>],
                      [orig |-> <<>>, trans |-> <<"han_wen">>] >>]
NoSentenceBody == [spell |-> "x"]
\* A 200 response whose body is not JSON, and one whose sentences lack 'orig'.
NotJsonBody == [not_json |-> "<html>"]
NoOrigBody == [sentences |-> << [trans |-> <<"han_yi">>] >>]

OkResponses(texts) ==
    { [status_code |-> StatusOK, reason |-> "OK", body |-> b] :
      b \in {SentenceBody(texts), NoSentenceBody, NotJsonBody, NoOrigBody} }
ErrorResponses ==
    { [status_code |-> 403, reason |-> "Forbidden", body |-> NoSentenceBody],
      [status_code |-> 500, reason |-> "Internal Server Error", body |-> NoSentenceBody] }
ThrottledResponse ==
    [status_code |-> TooManyRequests, reason |-> "Too Many Requests", body |-> NoSentenceBody]

Responses(texts) ==
    OkResponses(texts) \cup ErrorResponses
      \cup (IF throttled < limits.throttled THEN {ThrottledResponse} ELSE {})

RequestExceptions == {"ConnectionError()"}

\* random.randint(60, 90): any of RandLo..RandHi; a run draws from limits.increments.
RandomIncrements == RandLo..RandHi

\* ------------------------------------------------------------ google_trans
GIdle ==
    [texts |-> <<>>, to |-> <<>>, r |-> None, statuses |-> <<>>, sleeps |-> <<>>,
     wait0 |-> 0, raised |-> None]

\* Entry of google_trans(texts, to): nothing requested yet.
GoogleEnter(texts, to) ==
    [texts |-> texts, to |-> to, r |-> None, statuses |-> <<>>, sleeps |-> <<>>,
     wait0 |-> google_trans_wait, raised |-> None]

GoogleResult_Body(r) == r.body

\* Lines 338-341: the value google_trans returns for its last response.
GoogleResult(r) ==
    IF r.status_code = StatusOK THEN r.body
    ELSE [error_code |-> r.status_code, error_msg |-> r.reason]

\* repr(e) of what r.json() raises on a body that is not JSON (line 339).
JsonException == "JSONDecodeError('Expecting value: line 1 column 1 (char 0)')"
JsonRaises(r) == r.status_code = StatusOK /\ r.body = NotJsonBody

GoogleFinish_CooldownOnSuccess(frame, r) ==
    /\ IF JsonRaises(r)
       THEN /\ g' = [frame EXCEPT !.r = Some(r),
                                  !.statuses = Append(@, r.status_code),
                                  !.raised = Some(JsonException)]
            /\ gresult' = None
            /\ pc' = "g_raised"
       ELSE /\ g' = [frame EXCEPT !.r = Some(r),
                                  !.statuses = Append(@, r.status_code),
                                  !.sleeps = IF r.status_code = StatusOK
                                             THEN Append(@, Cooldown) ELSE @]
            /\ gresult' = Some(GoogleResult(r))
            /\ pc' = "g_ret"
    /\ UNCHANGED <<google_trans_wait, throttled>>

\* Lines 338-343 after a response that ends the loop: result, time.sleep(4),
\* return; or r.json() raises and google_trans is left by the exception.
GoogleFinish(frame, r) ==
    /\ IF JsonRaises(r)
       THEN /\ g' = [frame EXCEPT !.r = Some(r),
                                  !.statuses = Append(@, r.status_code),
                                  !.raised = Some(JsonException)]
            /\ gresult' = None
            /\ pc' = "g_raised"
       ELSE /\ g' = [frame EXCEPT !.r = Some(r),
                                  !.statuses = Append(@, r.status_code),
                                  !.sleeps = Append(@, Cooldown)]
            /\ gresult' = Some(GoogleResult(r))
            /\ pc' = "g_ret"
    /\ UNCHANGED <<google_trans_wait, throttled>>

NextWait_Minus(wait, inc) == wait - inc

NextWait_Same(wait, inc) == wait

\* Line 337: _google_trans_wait += random.randint(60, 90)
NextWait(wait, inc) == wait + inc

\* The wait grows on the first 429 as well.
GoogleGet_Increases ==
    /\ pc = "g_get"
    /\ \E r \in Responses(g.texts) :
         IF r.status_code = TooManyRequests
         THEN /\ g' = [g EXCEPT !.r = Some(r), !.statuses = Append(@, r.status_code)]
              /\ throttled' = throttled + 1
              /\ pc' = "g_loop"
              /\ \E inc \in limits.increments :
                   google_trans_wait' = NextWait(google_trans_wait, inc)
              /\ UNCHANGED gresult
         ELSE GoogleFinish(g, r)
    /\ UNCHANGED <<cfg, openai_installed, info, op, field, chain, cresult, movie,
                   selftest, ops, limits, probe, workers>>

\* Line 331: the first GET.
GoogleGet ==
    /\ pc = "g_get"
    /\ \E r \in Responses(g.texts) :
         IF r.status_code = TooManyRequests
         THEN /\ g' = [g EXCEPT !.r = Some(r), !.statuses = Append(@, r.status_code)]
              /\ throttled' = throttled + 1
              /\ pc' = "g_loop"
              /\ UNCHANGED <<gresult, google_trans_wait>>
         ELSE GoogleFinish(g, r)
    /\ UNCHANGED <<cfg, openai_installed, info, op, field, chain, cresult, movie,
                   selftest, ops, limits, probe, workers>>

\* The loop gives up after its second 429.
GoogleRetry_Capped ==
    /\ pc = "g_loop"
    /\ LET slept == [g EXCEPT !.sleeps = Append(@, google_trans_wait)]
       IN \E r \in Responses(g.texts) :
            IF r.status_code = TooManyRequests /\ Len(g.statuses) < 2
            THEN /\ \E inc \in limits.increments :
                      google_trans_wait' = NextWait(google_trans_wait, inc)
                 /\ g' = [slept EXCEPT !.r = Some(r), !.statuses = Append(@, r.status_code)]
                 /\ throttled' = throttled + 1
                 /\ pc' = "g_loop"
                 /\ UNCHANGED gresult
            ELSE GoogleFinish(slept, r)
    /\ UNCHANGED <<cfg, openai_installed, info, op, field, chain, cresult, movie,
                   selftest, ops, limits, probe, workers>>

\* Lines 332-337, one turn of the loop: warn, sleep the current wait, GET again,
\* and add a random amount to the wait when the answer is 429 again.
GoogleRetry ==
    /\ pc = "g_loop"
    /\ LET slept == [g EXCEPT !.sleeps = Append(@, google_trans_wait)]
       IN \E r \in Responses(g.texts) :
            IF r.status_code = TooManyRequests
            THEN /\ \E inc \in limits.increments :
                      google_trans_wait' = NextWait(google_trans_wait, inc)
                  /\ g' = [slept EXCEPT !.r = Some(r), !.statuses = Append(@, r.status_code)]
                 /\ throttled' = throttled + 1
                 /\ pc' = "g_loop"
                 /\ UNCHANGED gresult
            ELSE GoogleFinish(slept, r)
    /\ UNCHANGED <<cfg, openai_installed, info, op, field, chain, cresult, movie,
                   selftest, ops, limits, probe, workers>>

\* requests.get raises (line 331 or 335): google_trans is left by the exception,
\* without the cool-down and without a result.
GoogleRaise ==
    /\ pc \in {"g_get", "g_loop"}
    /\ \E e \in RequestExceptions :
         g' = [g EXCEPT !.sleeps = IF pc = "g_loop" THEN Append(@, google_trans_wait) ELSE @,
                        !.raised = Some(e)]
    /\ gresult' = None
    /\ pc' = "g_raised"
    /\ UNCHANGED <<cfg, openai_installed, info, google_trans_wait, op, field, chain,
                   cresult, movie, selftest, throttled, ops, limits, probe, workers>>

\* ------------------------------------------- translate_with_openai_compatible
\* repr(e) of what the client may raise: a transport failure, any other failure.
TransportException == "APIConnectionError('Connection error.')"
OtherException == "BadRequestError('Error code: 400')"
\* What one chat-completion call may do, given the text it was sent.
NoReply == [kind |-> "none", content |-> <<>>, exc |-> ""]
ProviderReplies(protected) ==
    IF ~openai_installed THEN {NoReply}
    ELSE { [kind |-> "content", content |-> c, exc |-> ""] :
             c \in {protected, <<" ">> \o Yiwen} }
         \cup { [kind |-> "empty", content |-> <<>>, exc |-> ""] }
         \cup { [kind |-> "raise", content |-> <<>>, exc |-> e] : e \in limits.exceptions }

translate_with_openai_compatible_OneCode(texts, actress, reply) ==
    IF ~openai_installed
    THEN [error_code |-> ImportErrorCode, error_msg |-> "openai package not installed"]
    ELSE IF reply.kind = "raise"
    THEN [error_code |-> ExceptionCode, error_msg |-> reply.exc]
    ELSE IF reply.kind = "empty" \/ reply.content = <<>>
    THEN [error_code |-> ExceptionCode, error_msg |-> "Empty response from API"]
    ELSE [trans |-> Restore(Strip(reply.content), actress)]

\* Lines 127-188: the dict the call returns.
translate_with_openai_compatible(texts, actress, reply) ==
    IF ~openai_installed
    THEN [error_code |-> ImportErrorCode, error_msg |-> "openai package not installed"]
    ELSE IF reply.kind = "raise"
    THEN [error_code |-> ExceptionCode, error_msg |-> reply.exc]
    ELSE IF reply.kind = "empty" \/ reply.content = <<>>
    THEN [error_code |-> EmptyCode, error_msg |-> "Empty response from API"]
    ELSE [trans |-> Restore(Strip(reply.content), actress)]

\* str() of the numbers the messages are built from.
IntStr(n) ==
    CASE n = 403 -> "403" [] n = 500 -> "500" [] n = 429 -> "429" [] n = 200 -> "200"
      [] n = ImportErrorCode -> "-10" [] n = ExceptionCode -> "-11"
      [] n = EmptyCode -> "-12" [] OTHER -> "?"

\* dict.get(key, default) for the two keys of an error dict.
GetErrorMsg(result, default) ==
    IF "error_msg" \in DOMAIN result THEN result.error_msg ELSE default
GetErrorCode(result, default) ==
    IF "error_code" \in DOMAIN result THEN IntStr(result.error_code) ELSE default

\* ''.join(list)
RECURSIVE Join(_)
Join(parts) == IF parts = <<>> THEN <<>> ELSE Head(parts) \o Join(Tail(parts))

\* -------------------------------------------------- translate_with_providers
CIdle ==
    [texts |-> <<>>, actress |-> <<>>, target_lang |-> <<>>, idx |-> 0,
     errors |-> <<>>, calls |-> <<>>, warning |-> None]

\* Line 215: provider.name or f"{provider.model}"
ProviderName(provider) == IF provider.name # "" THEN provider.name ELSE provider.model

HasTrans_Never(result) == FALSE

\* Line 221: 'trans' in result
HasTrans(result) == "trans" \in DOMAIN result

ErrorEntry_NoName(provider_name, result) == <<"", ": ", GetErrorMsg(result, "Unknown error")>>

\* Line 230: f"{provider_name}: {error_msg}"
ErrorEntry(provider_name, result) ==
    <<provider_name, ": ", GetErrorMsg(result, "Unknown error")>>

\* One entry of the record of calls a translate_with_providers invocation has
\* made: to the provider at idx or to google_trans (idx 0), the text it was
\* sent, and the dict it returned (None while it runs, or when it raised).
GoogleCall(texts) == [kind |-> "google", idx |-> 0, sent |-> Some(texts), ret |-> None]

NextAfterFailure_Break(idx, n) == "g_get"

NextAfterFailure_SkipLast(idx, n) == IF idx + 1 < n THEN "c_loop" ELSE "g_get"

\* Lines 214 and 236: after a failure the loop goes on to the next provider, and
\* falls through to the fallback once the list is exhausted.
NextAfterFailure(idx, n) == IF idx < n THEN "c_loop" ELSE "g_get"

\* Lines 205-212 and 236-238: entry of translate_with_providers.  With providers
\* the loop starts at the first one; without, google_trans is called at once.
ChainEnter(texts, actress, target_lang) ==
    LET frame == [texts |-> texts, actress |-> actress, target_lang |-> target_lang,
                  idx |-> 1, errors |-> <<>>, calls |-> <<>>, warning |-> None]
    IN IF Len(cfg.providers) > 0
       THEN /\ chain' = frame
            /\ pc' = "c_loop"
            /\ UNCHANGED g
       ELSE /\ chain' = [frame EXCEPT !.calls = <<GoogleCall(texts)>>]
            /\ g' = GoogleEnter(texts, target_lang)
            /\ pc' = "g_get"

\* Lines 214-238, one turn of the loop: call the provider at idx; return its
\* translation, or record the error and go on to the next provider, or to
\* google_trans after the last one.
ProviderAttempt ==
    /\ pc = "c_loop"
    /\ op = "movie"
    /\ LET provider == cfg.providers[chain.idx]
           provider_name == ProviderName(provider)
           protected == Protect(chain.texts, chain.actress)
       IN \E reply \in ProviderReplies(protected) :
            LET result == translate_with_openai_compatible(chain.texts, chain.actress, reply)
                call == [kind |-> "provider", idx |-> chain.idx,
                         sent |-> IF openai_installed THEN Some(protected) ELSE None,
                         ret |-> Some(result)]
                called == [chain EXCEPT !.calls = Append(@, call)]
                failed == [called EXCEPT !.errors = Append(@, ErrorEntry(provider_name, result))]
            IN IF HasTrans(result)
               THEN /\ cresult' = Some([trans |-> result.trans, provider |-> provider_name])
                    /\ chain' = called
                    /\ pc' = "c_ret"
                    /\ UNCHANGED g
               ELSE IF NextAfterFailure(chain.idx, Len(cfg.providers)) = "c_loop"
               THEN /\ chain' = [failed EXCEPT !.idx = @ + 1]
                    /\ pc' = "c_loop"
                    /\ UNCHANGED <<cresult, g>>
               ELSE /\ chain' = [failed EXCEPT !.idx = @ + 1,
                                               !.warning = Some(failed.errors),
                                               !.calls = Append(@, GoogleCall(chain.texts))]
                    /\ g' = GoogleEnter(chain.texts, chain.target_lang)
                    /\ pc' = "g_get"
                    /\ UNCHANGED cresult
    /\ UNCHANGED <<cfg, openai_installed, info, google_trans_wait, op, field, gresult,
                   movie, selftest, throttled, ops, limits, probe, workers>>

\* Lines 240-250: the outcome made from what google_trans returned.
FallbackOutcome(result) ==
    IF "sentences" \in DOMAIN result
    THEN LET orig_break == [i \in 1..Len(result.sentences) |-> result.sentences[i].orig]
             trans_break == [i \in 1..Len(result.sentences) |-> result.sentences[i].trans]
         IN [trans |-> Join(trans_break), orig_break |-> orig_break,
             trans_break |-> trans_break, provider |-> "Google"]
    ELSE [error |-> <<GetErrorCode(result, "unknown"), ": ",
                      GetErrorMsg(result, "unknown error")>>]

FallbackException_WithErrors(e) == [error |-> <<"Google: ", e>>, errors |-> chain.errors]

\* Lines 251-254: the outcome made from an exception of google_trans.
FallbackException(e) == [error |-> <<"Google: ", e>>]

\* The exception of google_trans is not caught.
FallbackReturn_Propagates ==
    /\ pc \in {"g_ret", "g_raised"}
    /\ op = "movie"
    /\ IF pc = "g_raised"
       THEN /\ pc' = "m_abort"
            /\ UNCHANGED <<cresult, chain>>
       ELSE /\ cresult' = Some(FallbackOutcome(gresult[1]))
            /\ chain' = [chain EXCEPT !.calls[Len(chain.calls)].ret = gresult]
            /\ pc' = "c_ret"
    /\ UNCHANGED <<cfg, openai_installed, info, google_trans_wait, op, field, g, gresult,
                   movie, selftest, throttled, ops, limits, probe, workers>>

\* Line 242: i['orig'] raises KeyError when a sentence has no 'orig'.
KeyErrorOrig == "KeyError('orig')"
OutcomeRaises(result) ==
    /\ "sentences" \in DOMAIN result
    /\ \E i \in 1..Len(result.sentences) : "orig" \notin DOMAIN result.sentences[i]

\* Lines 238-254: google_trans is back, translate_with_providers returns.
FallbackReturn ==
    /\ pc \in {"g_ret", "g_raised"}
    /\ op = "movie"
    /\ cresult' = Some(IF pc = "g_raised" THEN FallbackException(g.raised[1])
                       ELSE IF OutcomeRaises(gresult[1]) THEN FallbackException(KeyErrorOrig)
                       ELSE FallbackOutcome(gresult[1]))
    /\ chain' = [chain EXCEPT !.calls[Len(chain.calls)].ret = gresult]
    /\ pc' = "c_ret"
    /\ UNCHANGED <<cfg, openai_installed, info, google_trans_wait, op, field, g, gresult,
                   movie, selftest, throttled, ops, limits, probe, workers>>

\* ------------------------------------------------------ translate_movie_info
\* The call's frame: the MovieInfo as it was on entry, and for each field what
\* became of it (pending, unwanted, skipped, attempting, translated, failed)
\* and how many provider and google_trans calls were made for it, and the
\* attributes of the MovieInfo assigned for it.
MIdle ==
    [info0 |-> None,
     status |-> [title |-> "pending", plot |-> "pending"],
     ncalls |-> [title |-> 0, plot |-> 0],
     warnings |-> <<>>,
     written |-> [title |-> {}, plot |-> {}],
     ret |-> None]

TitleWanted_NoGuard(i, c) == i.title # <<>> /\ c.fields_title

\* Line 58: info.title and Cfg().translator.fields.title and info.ori_title is None
TitleWanted(i, c) == i.title # <<>> /\ c.fields_title /\ i.ori_title = None

\* Line 86: info.plot and Cfg().translator.fields.plot
PlotWanted(i, c) == i.plot # <<>> /\ c.fields_plot

SkipDetected_Never(text, c) == FALSE

\* Lines 60 and 88: auto_detect and should_skip_translation(text, target_lang)
SkipDetected(text, c) ==
    c.auto_detect_language /\ should_skip_translation(text, c.target_language)

\* Lines 67 and 97: 'trans' in result
Translated(result) == "trans" \in DOMAIN result

\* Lines 68-74: the attributes assigned for a translated title.
TitleWritten(result) ==
    {"ori_title", "title"}
      \cup (IF "orig_break" \in DOMAIN result THEN {"ori_title_break"} ELSE {})
      \cup (IF "trans_break" \in DOMAIN result THEN {"title_break"} ELSE {})

\* Lines 99-100: the attributes assigned for a translated plot.
PlotWritten(result) == {"ori_plot", "plot"}

ApplyTitle_NoArchive(i, result) == [i EXCEPT !.title = result.trans]

\* Lines 68-74: the title result written into the MovieInfo.
ApplyTitle(i, result) ==
    [i EXCEPT !.ori_title = Some(i.title),
              !.title = result.trans,
              !.ori_title_break =
                  IF "orig_break" \in DOMAIN result THEN Some(result.orig_break) ELSE @,
              !.title_break =
                  IF "trans_break" \in DOMAIN result THEN Some(result.trans_break) ELSE @]

\* Lines 99-100: the plot result written into the MovieInfo.
ApplyPlot(i, result) == [i EXCEPT !.ori_plot = Some(i.plot), !.plot = result.trans]

TitleFailureNext_Abort(c) == IF c.title_mandatory THEN "m_abort" ELSE "m_plot"

\* Lines 78-83: a failed title is printed, and warned about when the title is
\* mandatory; the function goes on to the plot either way.
TitleFailureNext(c) == "m_plot"

\* Lines 82-83: the warning logged for a failed mandatory title.
TitleFailureWarnings(c) ==
    IF c.title_mandatory THEN <<[level |-> "warning", about |-> "title"]>> ELSE <<>>

StartMovie ==
    /\ op = "idle"
    /\ ops < limits.ops
    /\ ops' = ops + 1
    /\ op' = "movie"
    /\ pc' = "m_title"
    /\ movie' = [MIdle EXCEPT !.info0 = Some(info)]
    /\ UNCHANGED <<cfg, openai_installed, info, google_trans_wait, field, chain, cresult,
                   g, gresult, selftest, throttled, limits, probe, workers>>

\* Lines 58-66: leave the title alone, or skip it, or send it down the chain.
MovieTitle ==
    /\ pc = "m_title"
    /\ IF ~TitleWanted(info, cfg)
       THEN /\ pc' = "m_plot"
            /\ movie' = [movie EXCEPT !.status.title = "unwanted"]
            /\ UNCHANGED <<field, chain, g>>
       ELSE IF SkipDetected(info.title, cfg)
       THEN /\ pc' = "m_plot"
            /\ movie' = [movie EXCEPT !.status.title = "skipped"]
            /\ UNCHANGED <<field, chain, g>>
       ELSE /\ ChainEnter(info.title, info.actress, cfg.target_language)
            /\ field' = "title"
            /\ movie' = [movie EXCEPT !.status.title = "attempting"]
    /\ UNCHANGED <<cfg, openai_installed, info, google_trans_wait, op, cresult, gresult,
                   selftest, throttled, ops, limits, probe, workers>>

\* Lines 67-83: the chain is back with the title's outcome.
MovieTitleResult ==
    /\ pc = "c_ret"
    /\ field = "title"
    /\ LET result == cresult[1]
           counted == [movie EXCEPT !.ncalls.title = Len(chain.calls)]
       IN IF Translated(result)
          THEN /\ info' = ApplyTitle(info, result)
               /\ pc' = "m_plot"
               /\ movie' = [counted EXCEPT !.status.title = "translated",
                                           !.written.title = TitleWritten(result)]
          ELSE /\ pc' = TitleFailureNext(cfg)
               /\ movie' = [counted EXCEPT !.status.title = "failed",
                                           !.warnings = @ \o TitleFailureWarnings(cfg)]
               /\ UNCHANGED info
    /\ field' = "none"
    /\ chain' = CIdle
    /\ cresult' = None
    /\ g' = GIdle
    /\ gresult' = None
    /\ UNCHANGED <<cfg, openai_installed, google_trans_wait, op, selftest, throttled,
                   ops, limits, probe, workers>>

\* Lines 86-96: leave the plot alone, or skip it, or send it down the chain.
MoviePlot ==
    /\ pc = "m_plot"
    /\ IF ~PlotWanted(info, cfg)
       THEN /\ pc' = "m_ret"
            /\ movie' = [movie EXCEPT !.status.plot = "unwanted", !.ret = Some(TRUE)]
            /\ UNCHANGED <<field, chain, g>>
       ELSE IF SkipDetected(info.plot, cfg)
       THEN /\ pc' = "m_ret"
            /\ movie' = [movie EXCEPT !.status.plot = "skipped", !.ret = Some(TRUE)]
            /\ UNCHANGED <<field, chain, g>>
       ELSE /\ ChainEnter(info.plot, info.actress, cfg.target_language)
            /\ field' = "plot"
            /\ movie' = [movie EXCEPT !.status.plot = "attempting"]
    /\ UNCHANGED <<cfg, openai_installed, info, google_trans_wait, op, cresult, gresult,
                   selftest, throttled, ops, limits, probe, workers>>

\* Lines 97-109: the chain is back with the plot's outcome; return True.
MoviePlotResult ==
    /\ pc = "c_ret"
    /\ field = "plot"
    /\ LET result == cresult[1]
           counted == [movie EXCEPT !.ncalls.plot = Len(chain.calls), !.ret = Some(TRUE)]
       IN IF Translated(result)
          THEN /\ info' = ApplyPlot(info, result)
               /\ movie' = [counted EXCEPT !.status.plot = "translated",
                                           !.written.plot = PlotWritten(result)]
          ELSE /\ movie' = [counted EXCEPT !.status.plot = "failed"]
               /\ UNCHANGED info
    /\ pc' = "m_ret"
    /\ field' = "none"
    /\ chain' = CIdle
    /\ cresult' = None
    /\ g' = GIdle
    /\ gresult' = None
    /\ UNCHANGED <<cfg, openai_installed, google_trans_wait, op, selftest, throttled,
                   ops, limits, probe, workers>>

\* translate_movie_info has returned (or was left by an exception).
MovieReturn ==
    /\ pc \in {"m_ret", "m_abort"}
    /\ op' = "idle"
    /\ pc' = "idle"
    /\ movie' = MIdle
    /\ UNCHANGED <<cfg, openai_installed, info, google_trans_wait, field, chain, cresult,
                   g, gresult, selftest, throttled, ops, limits, probe, workers>>

\* ------------------------------------------------- a direct google_trans call
CallGoogle ==
    /\ op = "idle"
    /\ ops < limits.ops
    /\ ops' = ops + 1
    /\ op' = "google"
    /\ \E texts \in {TitleJa, PlotJa} : g' = GoogleEnter(texts, cfg.target_language)
    /\ pc' = "g_get"
    /\ UNCHANGED <<cfg, openai_installed, info, google_trans_wait, field, chain, cresult,
                   gresult, movie, selftest, throttled, limits, probe, workers>>

GoogleDone ==
    /\ pc \in {"g_ret", "g_raised"}
    /\ op = "google"
    /\ op' = "idle"
    /\ pc' = "idle"
    /\ g' = GIdle
    /\ gresult' = None
    /\ UNCHANGED <<cfg, openai_installed, info, google_trans_wait, field, chain, cresult,
                   movie, selftest, throttled, ops, limits, probe, workers>>

\* ------------------------------------------------ test_translation_providers
TIdle == [idx |-> 0, results |-> <<>>]

\* Line 265: test_text = "こんにちは"
test_text == <<"kana_ko", "kana_n", "kana_ni", "kana_chi", "kana_ha">>

\* Line 272: provider.name or f"{provider.model}@{provider.base_url}"
SelfTestName(provider) ==
    IF provider.name # "" THEN <<provider.name>>
    ELSE <<provider.model, "@", provider.base_url>>

\* Lines 277-289: the entry recorded for one provider's result.
SelfTestEntry(provider, result) ==
    IF HasTrans(result)
    THEN [provider |-> SelfTestName(provider), status |-> "success",
          translation |-> result.trans]
    ELSE [provider |-> SelfTestName(provider), status |-> "failed",
          error |-> <<GetErrorCode(result, "None"), ": ", GetErrorMsg(result, "None")>>]

\* Lines 296-309: the entry recorded for what google_trans returned.
SelfTestGoogleEntry(result) ==
    IF "sentences" \in DOMAIN result
    THEN [provider |-> <<"Google">>, status |-> "success",
          translation |->
              Join([i \in 1..Len(result.sentences) |-> result.sentences[i].trans])]
    ELSE [provider |-> <<"Google">>, status |-> "failed",
          error |-> <<"No sentences in response">>]

\* Lines 311-316: the entry recorded for an exception of google_trans.
SelfTestGoogleException(e) ==
    [provider |-> <<"Google">>, status |-> "failed", error |-> <<e>>]

\* Lines 265-270 and 293-295: entry; without providers google_trans is called at once.
StartSelfTest ==
    /\ op = "idle"
    /\ ops < limits.ops
    /\ ops' = ops + 1
    /\ op' = "selftest"
    /\ IF Len(cfg.providers) > 0
       THEN /\ selftest' = [idx |-> 1, results |-> <<>>]
            /\ pc' = "t_loop"
            /\ UNCHANGED g
       ELSE /\ selftest' = [idx |-> 0, results |-> <<>>]
            /\ g' = GoogleEnter(test_text, cfg.target_language)
            /\ pc' = "g_get"
    /\ UNCHANGED <<cfg, openai_installed, info, google_trans_wait, field, chain, cresult,
                   gresult, movie, throttled, limits, probe, workers>>

\* The loop is left at the first provider that translates.
SelfTestProvider_StopOnSuccess ==
    /\ pc = "t_loop"
    /\ LET provider == cfg.providers[selftest.idx]
       IN \E reply \in ProviderReplies(Protect(test_text, <<>>)) :
            LET result == translate_with_openai_compatible(test_text, <<>>, reply)
                tested == [selftest EXCEPT !.results = Append(@, SelfTestEntry(provider, result)),
                                           !.idx = @ + 1]
            IN /\ selftest' = tested
               /\ IF selftest.idx < Len(cfg.providers) /\ ~HasTrans(result)
                  THEN /\ pc' = "t_loop"
                       /\ UNCHANGED g
                  ELSE /\ g' = GoogleEnter(test_text, cfg.target_language)
                       /\ pc' = "g_get"
    /\ UNCHANGED <<cfg, openai_installed, info, google_trans_wait, op, field, chain,
                   cresult, gresult, movie, throttled, ops, limits, probe, workers>>

\* Lines 271-295, one turn of the loop: test the provider at idx, record the
\* result, go on to the next provider, or to google_trans after the last one.
SelfTestProvider ==
    /\ pc = "t_loop"
    /\ LET provider == cfg.providers[selftest.idx]
       IN \E reply \in ProviderReplies(Protect(test_text, <<>>)) :
            LET result == translate_with_openai_compatible(test_text, <<>>, reply)
                tested == [selftest EXCEPT !.results = Append(@, SelfTestEntry(provider, result)),
                                           !.idx = @ + 1]
            IN /\ selftest' = tested
               /\ IF selftest.idx < Len(cfg.providers)
                  THEN /\ pc' = "t_loop"
                       /\ UNCHANGED g
                  ELSE /\ g' = GoogleEnter(test_text, cfg.target_language)
                       /\ pc' = "g_get"
    /\ UNCHANGED <<cfg, openai_installed, info, google_trans_wait, op, field, chain,
                   cresult, gresult, movie, throttled, ops, limits, probe, workers>>

\* Lines 295-319: google_trans is back; record its result and return the list.
SelfTestFallback ==
    /\ pc \in {"g_ret", "g_raised"}
    /\ op = "selftest"
    /\ selftest' = [selftest EXCEPT !.results =
                        Append(@, IF pc = "g_ret" THEN SelfTestGoogleEntry(gresult[1])
                                                  ELSE SelfTestGoogleException(g.raised[1]))]
    /\ g' = GIdle
    /\ gresult' = None
    /\ pc' = "t_ret"
    /\ UNCHANGED <<cfg, openai_installed, info, google_trans_wait, op, field, chain,
                   cresult, movie, throttled, ops, limits, probe, workers>>

SelfTestReturn ==
    /\ pc = "t_ret"
    /\ op' = "idle"
    /\ pc' = "idle"
    /\ selftest' = TIdle
    /\ UNCHANGED <<cfg, openai_installed, info, google_trans_wait, field, chain, cresult,
                   g, gresult, movie, throttled, ops, limits, probe, workers>>

\* ------------------------------------------- the text functions on their own
NoProbe ==
    [fn |-> "none", stage |-> "input", text |-> <<>>, entities |-> <<>>, lang |-> <<>>,
     protected |-> <<>>, restored |-> <<>>, skip |-> FALSE]

TextsOver(alphabet, n) == UNION { [1..k -> alphabet] : k \in 0..n }

\* Names and titles over two letters and one letter of the token itself.
EntityAlphabet == {"a", "b", "S"}
EntityNames == TextsOver(EntityAlphabet, 2) \ {<<>>}
EntityLists == UNION { [1..k -> EntityNames] : k \in 0..MaxEntities }

\* An ideograph, a kana, a Latin letter and a blank; and the spec's examples.
SkipAlphabet == {"han_ni", "kana_ko", "h", " "}
Hello == <<"h", "e", "l", "l", "o">>
NiHao == <<"han_ni", "han_hao">>
SkipTexts == TextsOver(SkipAlphabet, MaxLen) \cup {test_text, Hello, NiHao}
Langs == {zh_CN, zh_TW, en}

ProbeInputs ==
    { [NoProbe EXCEPT !.fn = "protect", !.text = t, !.entities = e] :
        t \in TextsOver(EntityAlphabet, MaxLen), e \in EntityLists }
    \cup { [NoProbe EXCEPT !.fn = "skip", !.text = t, !.lang = l] :
             t \in SkipTexts, l \in Langs }

\* Lines 155-158 applied to the input.
ProbeProtect ==
    /\ probe.fn = "protect"
    /\ probe.stage = "input"
    /\ probe' = [probe EXCEPT !.stage = "protected",
                              !.protected = Protect(probe.text, probe.entities)]
    /\ UNCHANGED <<cfg, openai_installed, info, google_trans_wait, op, pc, field, chain,
                   cresult, g, gresult, movie, selftest, throttled, ops, limits, workers>>

\* Lines 183-184 applied to the protected text, as it comes back from a provider
\* that echoes what it was sent.
ProbeRestore ==
    /\ probe.fn = "protect"
    /\ probe.stage = "protected"
    /\ probe' = [probe EXCEPT !.stage = "restored",
                              !.restored = Restore(probe.protected, probe.entities)]
    /\ UNCHANGED <<cfg, openai_installed, info, google_trans_wait, op, pc, field, chain,
                   cresult, g, gresult, movie, selftest, throttled, ops, limits, workers>>

\* should_skip_translation applied to the input.
ProbeSkip ==
    /\ probe.fn = "skip"
    /\ probe.stage = "input"
    /\ probe' = [probe EXCEPT !.stage = "skipped",
                              !.skip = should_skip_translation(probe.text, probe.lang)]
    /\ UNCHANGED <<cfg, openai_installed, info, google_trans_wait, op, pc, field, chain,
                   cresult, g, gresult, movie, selftest, throttled, ops, limits, workers>>

\* ------------------------------------- google_trans in concurrent threads
\* The module takes no lock (lines 323-337): threads that call google_trans at
\* the same time interleave at every read and write of _google_trans_wait.
Workers == 1..MaxWorkers

\* Locals of google_trans in one thread: where it is, the value it loaded for
\* the += of line 337, the values of _google_trans_wait it has read, in order,
\* and the sum of the increments it has added.
WIdle == [pc |-> "w_idle", loaded |-> 0, reads |-> <<>>, added |-> 0]
NoWorkers == [w \in Workers |-> WIdle]

WorkerFrame == <<cfg, openai_installed, info, op, pc, field, chain, cresult, g, gresult,
                 movie, selftest, ops, limits, probe>>

\* A thread calls google_trans.
WorkerCall(w) ==
    /\ workers[w].pc = "w_idle"
    /\ workers' = [workers EXCEPT ![w].pc = "w_get"]
    /\ UNCHANGED <<WorkerFrame, google_trans_wait, throttled>>

\* Line 331: the first GET; a 429 enters the loop, anything else ends the call.
WorkerGet(w) ==
    /\ workers[w].pc = "w_get"
    /\ \/ \E r \in Responses(TitleJa) :
            IF r.status_code = TooManyRequests
            THEN /\ workers' = [workers EXCEPT ![w].pc = "w_loop"]
                 /\ throttled' = throttled + 1
            ELSE /\ workers' = [workers EXCEPT ![w].pc = "w_done"]
                 /\ UNCHANGED throttled
       \/ \E e \in RequestExceptions :
            /\ workers' = [workers EXCEPT ![w].pc = "w_done"]
            /\ UNCHANGED throttled
    /\ UNCHANGED <<WorkerFrame, google_trans_wait>>

\* Lines 333-336: read the wait for the warning and the sleep, sleep, GET again.
WorkerRetry(w) ==
    /\ workers[w].pc = "w_loop"
    /\ LET slept == [workers EXCEPT ![w].reads = Append(@, google_trans_wait)]
       IN \/ \E r \in Responses(TitleJa) :
               IF r.status_code = TooManyRequests
               THEN /\ workers' = [slept EXCEPT ![w].pc = "w_load"]
                    /\ throttled' = throttled + 1
               ELSE /\ workers' = [slept EXCEPT ![w].pc = "w_done"]
                    /\ UNCHANGED throttled
          \/ \E e \in RequestExceptions :
               /\ workers' = [slept EXCEPT ![w].pc = "w_done"]
               /\ UNCHANGED throttled
    /\ UNCHANGED <<WorkerFrame, google_trans_wait>>

\* Line 337, first half of +=: the global is loaded, then randint is called.
WorkerLoad(w) ==
    /\ workers[w].pc = "w_load"
    /\ workers' = [workers EXCEPT ![w].pc = "w_store",
                                  ![w].loaded = google_trans_wait,
                                  ![w].reads = Append(@, google_trans_wait)]
    /\ UNCHANGED <<WorkerFrame, google_trans_wait, throttled>>

\* Line 337, second half of +=: the sum of the loaded value and the random
\* amount is stored in the global.
WorkerStore(w) ==
    /\ workers[w].pc = "w_store"
    /\ \E inc \in limits.increments :
         /\ google_trans_wait' = NextWait(workers[w].loaded, inc)
         /\ workers' = [workers EXCEPT ![w].pc = "w_loop", ![w].added = @ + inc]
    /\ UNCHANGED <<WorkerFrame, throttled>>

\* -------------------------------------------------------------- the program

Init ==
    /\ cfg \in Configs
    /\ openai_installed \in BOOLEAN
    /\ info \in Infos
    /\ google_trans_wait = BaselineWait
    /\ op = "idle"
    /\ pc = "idle"
    /\ field = "none"
    /\ chain = CIdle
    /\ cresult = None
    /\ g = GIdle
    /\ gresult = None
    /\ movie = MIdle
    /\ selftest = TIdle
    /\ throttled = 0
    /\ ops = 0
    /\ limits = [throttled |-> ProgramThrottled, ops |-> MaxOps,
                 increments |-> {RandLo, RandHi}, exceptions |-> {TransportException}]
    /\ probe = NoProbe
    /\ workers = NoWorkers

Next ==
    \/ StartMovie
    \/ MovieTitle
    \/ MovieTitleResult
    \/ MoviePlot
    \/ MoviePlotResult
    \/ MovieReturn
    \/ ProviderAttempt
    \/ FallbackReturn
    \/ GoogleGet
    \/ GoogleRetry
    \/ GoogleRaise
    \/ CallGoogle
    \/ GoogleDone
    \/ StartSelfTest
    \/ SelfTestProvider
    \/ SelfTestFallback
    \/ SelfTestReturn

Spec == Init /\ [][Next]_vars

\* ---------------------------------------- google_trans alone, called in a row
DefaultConfig ==
    [providers |-> <<>>, fields_title |-> TRUE, fields_plot |-> TRUE,
     target_language |-> zh_CN, title_mandatory |-> TRUE, auto_detect_language |-> TRUE]

InitGoogle ==
    /\ cfg = DefaultConfig
    /\ openai_installed = TRUE
    /\ info = Scraped(TitleJa, PlotJa, <<ActressKo>>)
    /\ google_trans_wait = BaselineWait
    /\ op = "idle"
    /\ pc = "idle"
    /\ field = "none"
    /\ chain = CIdle
    /\ cresult = None
    /\ g = GIdle
    /\ gresult = None
    /\ movie = MIdle
    /\ selftest = TIdle
    /\ throttled = 0
    /\ ops = 0
    /\ limits = [throttled |-> MaxThrottled, ops |-> MaxCalls,
                 increments |-> RandomIncrements, exceptions |-> {}]
    /\ probe = NoProbe
    /\ workers = NoWorkers

NextGoogle ==
    \/ CallGoogle
    \/ GoogleGet
    \/ GoogleRetry
    \/ GoogleRaise
    \/ GoogleDone

SpecGoogle == InitGoogle /\ [][NextGoogle]_vars

\* google_trans runs on: a GET that can be made is made, and answered.
SpecGoogleFair ==
    InitGoogle /\ [][NextGoogle]_vars /\ WF_vars(GoogleGet) /\ WF_vars(GoogleRetry)

\* ------------------- top-level calls in a row, under the default configuration
RunConfigs ==
    { [DefaultConfig EXCEPT !.providers = [i \in 1..n |-> ProviderAt(i)]] : n \in 0..1 }

InitRun ==
    /\ cfg \in RunConfigs
    /\ openai_installed = TRUE
    /\ info = Scraped(TitleJa, PlotJa, <<ActressKo>>)
    /\ google_trans_wait = BaselineWait
    /\ op = "idle"
    /\ pc = "idle"
    /\ field = "none"
    /\ chain = CIdle
    /\ cresult = None
    /\ g = GIdle
    /\ gresult = None
    /\ movie = MIdle
    /\ selftest = TIdle
    /\ throttled = 0
    /\ ops = 0
    /\ limits = [throttled |-> MaxRunThrottled, ops |-> MaxRunOps,
                 increments |-> {RandLo, RandHi}, exceptions |-> {TransportException}]
    /\ probe = NoProbe
    /\ workers = NoWorkers

SpecRun == InitRun /\ [][Next]_vars

\* ------- one top-level call under the default flags, with every kind of failure
ChainConfigs ==
    { [DefaultConfig EXCEPT !.providers = p] : p \in ProviderLists }

InitChain ==
    /\ cfg \in ChainConfigs
    /\ openai_installed \in BOOLEAN
    /\ info = Scraped(TitleJa, PlotJa, <<ActressKo>>)
    /\ google_trans_wait = BaselineWait
    /\ op = "idle"
    /\ pc = "idle"
    /\ field = "none"
    /\ chain = CIdle
    /\ cresult = None
    /\ g = GIdle
    /\ gresult = None
    /\ movie = MIdle
    /\ selftest = TIdle
    /\ throttled = 0
    /\ ops = 0
    /\ limits = [throttled |-> ProgramThrottled, ops |-> MaxOps,
                 increments |-> {RandLo, RandHi},
                 exceptions |-> {TransportException, OtherException}]
    /\ probe = NoProbe
    /\ workers = NoWorkers

SpecChain == InitChain /\ [][Next]_vars

\* ---- calls in a row on one MovieInfo, with and without language detection
RepeatConfigs ==
    { [c EXCEPT !.auto_detect_language = a] : c \in RunConfigs, a \in BOOLEAN }

InitRepeat ==
    /\ cfg \in RepeatConfigs
    /\ openai_installed = TRUE
    /\ info = Scraped(TitleJa, PlotJa, <<ActressKo>>)
    /\ google_trans_wait = BaselineWait
    /\ op = "idle"
    /\ pc = "idle"
    /\ field = "none"
    /\ chain = CIdle
    /\ cresult = None
    /\ g = GIdle
    /\ gresult = None
    /\ movie = MIdle
    /\ selftest = TIdle
    /\ throttled = 0
    /\ ops = 0
    /\ limits = [throttled |-> ProgramThrottled, ops |-> MaxRunOps,
                 increments |-> {RandLo, RandHi}, exceptions |-> {TransportException}]
    /\ probe = NoProbe
    /\ workers = NoWorkers

SpecRepeat == InitRepeat /\ [][Next]_vars

\* ----------------------------------- google_trans called by threads at once
InitWorkers ==
    /\ cfg = DefaultConfig
    /\ openai_installed = TRUE
    /\ info = Scraped(TitleJa, PlotJa, <<ActressKo>>)
    /\ google_trans_wait = BaselineWait
    /\ op = "idle"
    /\ pc = "idle"
    /\ field = "none"
    /\ chain = CIdle
    /\ cresult = None
    /\ g = GIdle
    /\ gresult = None
    /\ movie = MIdle
    /\ selftest = TIdle
    /\ throttled = 0
    /\ ops = 0
    /\ limits = [throttled |-> MaxWorkerThrottled, ops |-> 0,
                 increments |-> {RandLo, RandHi}, exceptions |-> {}]
    /\ probe = NoProbe
    /\ workers = NoWorkers

NextWorkers ==
    \/ \E w \in Workers : WorkerCall(w)
    \/ \E w \in Workers : WorkerGet(w)
    \/ \E w \in Workers : WorkerRetry(w)
    \/ \E w \in Workers : WorkerLoad(w)
    \/ \E w \in Workers : WorkerStore(w)

SpecWorkers == InitWorkers /\ [][NextWorkers]_vars

\* --------------------------------------------------- the text functions alone
InitText ==
    /\ cfg = DefaultConfig
    /\ openai_installed = TRUE
    /\ info = Scraped(TitleJa, PlotJa, <<ActressKo>>)
    /\ google_trans_wait = BaselineWait
    /\ op = "idle"
    /\ pc = "idle"
    /\ field = "none"
    /\ chain = CIdle
    /\ cresult = None
    /\ g = GIdle
    /\ gresult = None
    /\ movie = MIdle
    /\ selftest = TIdle
    /\ throttled = 0
    /\ ops = 0
    /\ limits = [throttled |-> 0, ops |-> 0, increments |-> {}, exceptions |-> {}]
    /\ probe \in ProbeInputs
    /\ workers = NoWorkers

NextText ==
    \/ ProbeProtect
    \/ ProbeRestore
    \/ ProbeSkip

SpecText == InitText /\ [][NextText]_vars


\* ===================================================================== claims
\* Helpers of the statements below.
ProviderReturnedTranslation(call) ==
    call.kind = "provider" /\ call.ret # None /\ "trans" \in DOMAIN call.ret[1]
ProviderFailed(call) ==
    call.kind = "provider" /\ call.ret # None /\ "trans" \notin DOMAIN call.ret[1]
GoogleCalls == { i \in 1..Len(chain.calls) : chain.calls[i].kind = "google" }
InGoogle == pc \in {"g_get", "g_loop", "g_ret", "g_raised"}
ConfiguredName(i) ==
    IF cfg.providers[i].name # "" THEN cfg.providers[i].name ELSE cfg.providers[i].model

\* C1: in one translate_with_providers invocation, once the provider at position
\* i has returned a translation the invocation has returned: the calls made
\* are exactly the providers 1..i, none after i and never google_trans.
C1_FirstSuccessWins ==
    \A i \in 1..Len(chain.calls) :
        ProviderReturnedTranslation(chain.calls[i]) =>
            /\ Len(chain.calls) = i
            /\ \A j \in 1..i : chain.calls[j].kind = "provider" /\ chain.calls[j].idx = j
            /\ GoogleCalls = {}
            /\ g = GIdle
            /\ pc = "c_ret"

C1_Witness ==
    /\ pc = "c_ret"
    /\ Len(cfg.providers) = 3
    /\ Len(chain.calls) = 1
    /\ ProviderReturnedTranslation(chain.calls[1])

\* C2: google_trans is called at most once in an invocation, only after every
\* configured provider was tried and failed (at once when none is configured),
\* and an invocation in which no provider succeeded has called it exactly once
\* by the time it returns.
C2_FallbackExactlyOnce ==
    LET n == Len(cfg.providers)
    IN /\ Cardinality(GoogleCalls) <= 1
       /\ \A i \in GoogleCalls :
            /\ i = n + 1
            /\ \A j \in 1..n : ProviderFailed(chain.calls[j]) /\ chain.calls[j].idx = j
       /\ (op = "movie" /\ InGoogle) => GoogleCalls = {Len(chain.calls)}
       /\ (pc = "c_ret" /\ \A j \in 1..Len(chain.calls) :
                              ~ProviderReturnedTranslation(chain.calls[j]))
            => GoogleCalls = {n + 1}

C2_Witness ==
    /\ pc = "c_ret"
    /\ Len(cfg.providers) = 3
    /\ Len(chain.calls) = 4
    /\ chain.calls[4].kind = "google"

\* The strings a failure outcome carries: the pieces of every message in it.
Carried(result) ==
    UNION { { result[k][j] : j \in 1..Len(result[k]) } : k \in DOMAIN result }

ChainFailed == pc = "c_ret" /\ "error" \in DOMAIN cresult[1]

\* The message translate_with_providers makes of what google_trans did.
FallbackErrorOf(frame, ret) ==
    IF frame.raised # None THEN <<"Google: ", frame.raised[1]>>
    ELSE IF ret[1] = NoOrigBody THEN <<"Google: ", "KeyError('orig')">>
    ELSE IF ret[1] = NoSentenceBody THEN <<"unknown", ": ", "unknown error">>
    ELSE <<IntStr(frame.r[1].status_code), ": ", frame.r[1].reason>>

\* C3 as stated: the returned failure carries one error entry per configured
\* provider, in order, and the fallback error.
C3_FailureCarriesProviderErrors ==
    ChainFailed =>
        /\ \A i \in 1..Len(cfg.providers) :
             /\ ConfiguredName(i) \in Carried(cresult[1])
             /\ chain.errors[i][3] \in Carried(cresult[1])
        /\ \A j \in 1..Len(FallbackErrorOf(g, gresult)) :
             FallbackErrorOf(g, gresult)[j] \in Carried(cresult[1])

\* C3 amended: the returned failure is a dict with the one key 'error', holding
\* the fallback's error alone; the per-provider errors, one per configured
\* provider and in configured order, are in the local list, which is logged in
\* one warning before google_trans is called and is not returned.
C3_FailureCarriesFallbackErrorOnly ==
    ChainFailed =>
        /\ DOMAIN cresult[1] = {"error"}
        /\ cresult[1].error = FallbackErrorOf(g, gresult)
        /\ Len(chain.errors) = Len(cfg.providers)
        /\ \A i \in 1..Len(cfg.providers) :
             /\ chain.errors[i][1] = ConfiguredName(i)
             /\ chain.errors[i][3] = chain.calls[i].ret[1].error_msg
        /\ chain.warning = IF Len(cfg.providers) > 0 THEN Some(chain.errors) ELSE None

C3_Witness ==
    /\ ChainFailed
    /\ Len(cfg.providers) = 3
    /\ openai_installed
    /\ chain.errors[1][3] # chain.errors[2][3]
    /\ g.raised = None

\* C4: when the providers 1..k-1 fail and provider k returns the text T, the
\* invocation returns T under provider k's configured name, and the list of
\* errors holds exactly k-1 entries, one per failed provider, in order.
C4_SuccessAfterFailures ==
    \A k \in 1..Len(chain.calls) :
        ProviderReturnedTranslation(chain.calls[k]) =>
            /\ cresult = Some([trans |-> chain.calls[k].ret[1].trans,
                               provider |-> ConfiguredName(k)])
            /\ Len(chain.errors) = k - 1
            /\ \A i \in 1..(k - 1) :
                 /\ ProviderFailed(chain.calls[i])
                 /\ chain.errors[i] =
                      <<ConfiguredName(i), ": ", chain.calls[i].ret[1].error_msg>>

C4_Witness ==
    /\ pc = "c_ret"
    /\ Len(chain.calls) = 3
    /\ ProviderReturnedTranslation(chain.calls[3])
    /\ chain.calls[1].ret[1].error_code = EmptyCode
    /\ chain.calls[2].ret[1].error_code = ExceptionCode
    /\ cresult[1].trans = Yiwen

\* C5: _google_trans_wait starts at its baseline and no step of any run of
\* top-level calls lowers or resets it: every step leaves it at least as large
\* as before and at least the baseline, and the only steps that change it are
\* turns of the retry loop inside google_trans.
C5_WaitNeverDecreases ==
    /\ google_trans_wait = BaselineWait
    /\ [][ /\ google_trans_wait' >= google_trans_wait
           /\ google_trans_wait' >= BaselineWait
           /\ (google_trans_wait' # google_trans_wait) => (pc = "g_loop" /\ pc' = "g_loop")
         ]_vars

\* A google_trans call inside a self-test that found the wait already raised by
\* an earlier top-level call, and raised it again.
C5_Witness ==
    /\ op = "selftest"
    /\ g.wait0 > BaselineWait
    /\ google_trans_wait > g.wait0

ThreeThrottledThenSuccess ==
    /\ pc = "g_ret"
    /\ g.statuses = <<TooManyRequests, TooManyRequests, TooManyRequests, StatusOK>>

\* C6: a google_trans call answered 429, 429, 429, 200 leaves the wait strictly
\* larger than it found it, and returns the body of the 200 response, not an
\* error dict.
C6_ThrottledThenSuccessGrowsWait ==
    ThreeThrottledThenSuccess =>
        /\ google_trans_wait > g.wait0
        /\ g.r[1].status_code = StatusOK
        /\ gresult = Some(g.r[1].body)
        /\ "error_code" \notin DOMAIN gresult[1]

C6_Witness ==
    /\ ThreeThrottledThenSuccess
    /\ "sentences" \in DOMAIN gresult[1]
    /\ google_trans_wait = g.wait0 + RandLo + RandHi

Occurrences(text, e) ==
    { i..(i + Len(e) - 1) : i \in { j \in 1..Len(text) : MatchAt(text, e, j) } }

\* Two occurrences overlap partially: they share a position and neither holds
\* the other.
PartialOverlap(a, b) == a \cap b # {} /\ ~(a \subseteq b) /\ ~(b \subseteq a)

\* C8's entities: distinct, non-empty substrings of the text whose occurrences
\* are pairwise disjoint or nested.
ProtectableEntities(text, entities) ==
    /\ \A i \in 1..Len(entities) :
         entities[i] # <<>> /\ Occurrences(text, entities[i]) # {}
    /\ \A i, j \in 1..Len(entities) :
         i # j =>
            /\ entities[i] # entities[j]
            /\ \A a \in Occurrences(text, entities[i]) :
                 \A b \in Occurrences(text, entities[j]) : ~PartialOverlap(a, b)

\* C8 as stated: restoring the protected text gives the text back, whenever the
\* entities are substrings of the text that do not overlap or are nested in
\* each other; and an empty list leaves the text unchanged.
C8_ProtectRestoreRoundTrip ==
    (probe.fn = "protect" /\ probe.stage = "restored") =>
        /\ ProtectableEntities(probe.text, probe.entities) => probe.restored = probe.text
        /\ (probe.entities = <<>>) =>
              (probe.protected = probe.text /\ probe.restored = probe.text)

IsBlank(text) == \A i \in 1..Len(text) : text[i] \in SpaceChars

\* C9: should_skip_translation is true for every blank text; for a Chinese target
\* and a text that is not blank it is true exactly when the text is Chinese and
\* not Japanese; for any other target and a text that is not blank it is false.
C9_SkipDecision ==
    (probe.fn = "skip" /\ probe.stage = "skipped") =>
        LET chinese_target == probe.lang \in {zh_CN, zh_TW}
        IN /\ IsBlank(probe.text) => probe.skip
           /\ (~IsBlank(probe.text) /\ chinese_target) =>
                 (probe.skip <=> (is_chinese(probe.text) /\ ~is_japanese(probe.text)))
           /\ (~IsBlank(probe.text) /\ ~chinese_target) => ~probe.skip
           /\ (probe.text = NiHao /\ probe.lang = zh_CN) => probe.skip
           /\ (probe.text = <<>> /\ probe.lang = zh_CN) => probe.skip
           /\ (probe.text = test_text /\ probe.lang = zh_CN) => ~probe.skip
           /\ (probe.text = Hello /\ probe.lang = en) => ~probe.skip

\* A text of ideographs and kana, to a Chinese target: translated, not skipped.
C9_Witness ==
    /\ probe.stage = "skipped"
    /\ probe.lang = zh_TW
    /\ is_chinese(probe.text)
    /\ is_japanese(probe.text)
    /\ ~probe.skip

\* C10: in translate_movie_info, a field that is wanted and that the detector
\* says to skip, with auto-detection on, is never sent down the chain: no
\* provider and no google_trans call is made for it, its value stays what it was
\* on entry, and neither its original nor its sentence breaks are written.
C10_SkippedFieldUntouched ==
    op = "movie" =>
        LET i0 == movie.info0[1]
            skip_title == /\ i0.title # <<>> /\ cfg.fields_title /\ i0.ori_title = None
                          /\ cfg.auto_detect_language
                          /\ should_skip_translation(i0.title, cfg.target_language)
            skip_plot == /\ i0.plot # <<>> /\ cfg.fields_plot
                         /\ cfg.auto_detect_language
                         /\ should_skip_translation(i0.plot, cfg.target_language)
        IN /\ skip_title =>
                /\ movie.status.title \in {"pending", "skipped"}
                /\ (movie.status.title = "pending") => (pc = "m_title")
                /\ field # "title"
                /\ movie.ncalls.title = 0
                /\ info.title = i0.title
                /\ info.ori_title = i0.ori_title
                /\ info.ori_title_break = i0.ori_title_break
                /\ info.title_break = i0.title_break
           /\ skip_plot =>
                /\ movie.status.plot \in {"pending", "skipped"}
                /\ (movie.status.plot = "skipped") => (pc = "m_ret")
                /\ field # "plot"
                /\ movie.ncalls.plot = 0
                /\ info.plot = i0.plot
                /\ info.ori_plot = i0.ori_plot

\* The title is skipped and the plot translated in the same call.
C10_Witness ==
    /\ pc = "m_ret"
    /\ movie.status.title = "skipped"
    /\ movie.status.plot = "translated"
    /\ info.title = TitleZh
    /\ info.ori_title = None
    /\ info.ori_plot = Some(PlotJa)

\* The step in which translate_movie_info takes a successful outcome of the
\* chain for the field it is working on.
FieldSucceeds(f) == pc = "c_ret" /\ field = f /\ "trans" \in DOMAIN cresult[1]

HasBreakdown(result) == {"orig_break", "trans_break"} \cap DOMAIN result # {}

\* C11 as stated: on a success, for the title and the plot alike, the old value
\* is archived, the field is overwritten with the translation, and sentence-break
\* attributes are written exactly when the outcome carries a breakdown.
C11_SuccessWritesFieldAndBreaks ==
    [][ /\ FieldSucceeds("title") =>
              /\ info'.ori_title = Some(info.title)
              /\ info'.title = cresult[1].trans
              /\ (movie'.written.title \ {"ori_title", "title"} # {})
                    <=> HasBreakdown(cresult[1])
        /\ FieldSucceeds("plot") =>
              /\ info'.ori_plot = Some(info.plot)
              /\ info'.plot = cresult[1].trans
              /\ (movie'.written.plot \ {"ori_plot", "plot"} # {})
                    <=> HasBreakdown(cresult[1])
      ]_vars

\* C11 amended: on a success the old value is archived and the field overwritten
\* for the title and the plot alike; the title's sentence breaks are written
\* exactly when the outcome carries them, which is never for a provider's
\* success; for the plot no sentence-break attribute is written at all.
C11_SuccessWritesFieldAndTitleBreaks ==
    [][ /\ FieldSucceeds("title") =>
              /\ info'.ori_title = Some(info.title)
              /\ info'.title = cresult[1].trans
              /\ info'.plot = info.plot /\ info'.ori_plot = info.ori_plot
              /\ IF "orig_break" \in DOMAIN cresult[1]
                 THEN info'.ori_title_break = Some(cresult[1].orig_break)
                 ELSE info'.ori_title_break = info.ori_title_break
              /\ IF "trans_break" \in DOMAIN cresult[1]
                 THEN info'.title_break = Some(cresult[1].trans_break)
                 ELSE info'.title_break = info.title_break
              /\ (movie'.written.title \ {"ori_title", "title"} # {})
                    <=> HasBreakdown(cresult[1])
              /\ HasBreakdown(cresult[1])
                    <=> (chain.calls[Len(chain.calls)].kind = "google")
        /\ FieldSucceeds("plot") =>
              /\ info'.ori_plot = Some(info.plot)
              /\ info'.plot = cresult[1].trans
              /\ movie'.written.plot = {"ori_plot", "plot"}
              /\ info'.title = info.title /\ info'.ori_title = info.ori_title
              /\ info'.ori_title_break = info.ori_title_break
              /\ info'.title_break = info.title_break
      ]_vars

\* Title and plot both translated by google_trans: the title has its sentence
\* breaks, the plot was written without any.
C11_Witness ==
    /\ pc = "m_ret"
    /\ Len(cfg.providers) = 1
    /\ movie.status.title = "translated"
    /\ movie.ncalls.title = 2
    /\ info.title_break # None
    /\ info.ori_title = Some(movie.info0[1].title)
    /\ movie.status.plot = "translated"
    /\ movie.ncalls.plot = 2
    /\ movie.written.plot = {"ori_plot", "plot"}

ExactlyOneOutcome(result) ==
    ("trans" \in DOMAIN result) # ("error" \in DOMAIN result)

\* C12: whatever the providers and google_trans do (import error, transport
\* failure, empty reply, other exception; error status, malformed body,
\* exception), every provider call comes back with a dict, every google_trans
\* exception is caught, translate_movie_info is never left by an exception, and
\* translate_with_providers returns a dict with 'trans' or with 'error', not both.
C12_NoErrorEscapesChain ==
    /\ [](op = "movie" => pc # "m_abort")
    /\ [](pc = "c_ret" => (cresult # None /\ ExactlyOneOutcome(cresult[1])))
    /\ [][ (op = "movie" /\ pc = "c_loop") =>
              LET call == chain'.calls[chain.idx]
              IN /\ call.ret # None
                 /\ ("trans" \in DOMAIN call.ret[1]) # ("error_code" \in DOMAIN call.ret[1])
                 /\ pc' \in {"c_loop", "c_ret", "g_get"} ]_vars
    /\ [][ (op = "movie" /\ pc \in {"g_ret", "g_raised"}) =>
              (pc' = "c_ret" /\ (pc = "g_raised" => "error" \in DOMAIN cresult'[1])) ]_vars

\* Three providers fail in three ways, then google_trans raises.
C12_Witness ==
    /\ pc = "c_ret"
    /\ Len(chain.calls) = 4
    /\ chain.calls[1].ret[1].error_msg = TransportException
    /\ chain.calls[2].ret[1].error_code = EmptyCode
    /\ chain.calls[3].ret[1].error_msg = OtherException
    /\ g.raised = Some(JsonException)
    /\ DOMAIN cresult[1] = {"error"}

LastStatus(frame) == frame.statuses[Len(frame.statuses)]

\* C13: a response of google_trans that is neither 429 nor 200 is the last one
\* of the call, whether it is the first response or comes after any number of
\* 429s: no request follows it, the call returns its status code and reason as
\* an error dict, and the step that receives it leaves the wait as it was.
C13_ErrorStatusEndsCall ==
    /\ [](\A i \in 1..(Len(g.statuses) - 1) : g.statuses[i] = TooManyRequests)
    /\ []((g.statuses # <<>> /\ LastStatus(g) \notin {TooManyRequests, StatusOK}) =>
             /\ pc \in {"g_ret", "c_ret", "t_ret"}
             /\ gresult = Some([error_code |-> LastStatus(g), error_msg |-> g.r[1].reason])
             /\ g.r[1].status_code = LastStatus(g))
    /\ [][ (Len(g'.statuses) > Len(g.statuses)
              /\ LastStatus(g') \notin {TooManyRequests, StatusOK}) =>
                 (google_trans_wait' = google_trans_wait /\ pc' = "g_ret") ]_vars

C13_Witness ==
    /\ pc = "g_ret"
    /\ g.statuses = <<TooManyRequests, TooManyRequests, TooManyRequests, 403>>
    /\ gresult = Some([error_code |-> 403, error_msg |-> "Forbidden"])
    /\ google_trans_wait = g.wait0 + 2 * RandHi

\* C14 as stated: when the fallback is reached with names to protect, the text
\* sent to google_trans is the protected text, as for a provider, and the tokens
\* in its translation are restored before the outcome is returned.
C14_FallbackProtectsEntities ==
    (op = "movie" /\ chain.actress # <<>>) =>
        /\ \A i \in GoogleCalls :
             /\ chain.calls[i].sent = Some(Protect(chain.texts, chain.actress))
             /\ g.texts = Protect(chain.texts, chain.actress)
        /\ (pc = "c_ret" /\ GoogleCalls # {} /\ "trans" \in DOMAIN cresult[1]) =>
              cresult[1].trans =
                  Restore(Join([i \in 1..Len(gresult[1].sentences) |->
                                   gresult[1].sentences[i].trans]), chain.actress)

\* Which of the four conditions made a provider call fail, read off its message.
FailureCondition(call) ==
    CASE call.ret[1].error_msg = "openai package not installed" -> "unavailable"
      [] call.ret[1].error_msg = "Empty response from API" -> "empty"
      [] call.ret[1].error_msg = TransportException -> "transport"
      [] OTHER -> "other"

FailedProviderCalls == { i \in 1..Len(chain.calls) : ProviderFailed(chain.calls[i]) }

\* C15 as stated: provider calls that failed for different conditions carry
\* different error codes.
C15_DistinctCodePerCondition ==
    \A i, j \in FailedProviderCalls :
        FailureCondition(chain.calls[i]) # FailureCondition(chain.calls[j]) =>
            chain.calls[i].ret[1].error_code # chain.calls[j].ret[1].error_code

\* C15 amended: there are three error codes, not four: the missing client
\* library gives -10, an empty reply -12, and every exception of the call, a
\* transport failure like any other, gives -11 with repr(e) as the message.
C15_ThreeCodes ==
    /\ ImportErrorCode # ExceptionCode
    /\ ImportErrorCode # EmptyCode
    /\ ExceptionCode # EmptyCode
    /\ \A i \in FailedProviderCalls :
         LET ret == chain.calls[i].ret[1]
             condition == FailureCondition(chain.calls[i])
         IN /\ DOMAIN ret = {"error_code", "error_msg"}
            /\ condition = "unavailable" => (ret.error_code = ImportErrorCode /\ ~openai_installed)
            /\ condition = "empty" => ret.error_code = EmptyCode
            /\ condition = "transport" => ret.error_code = ExceptionCode
            /\ condition = "other" =>
                  (ret.error_code = ExceptionCode /\ ret.error_msg = OtherException)

C15_Witness ==
    /\ Len(chain.calls) >= 3
    /\ FailedProviderCalls = {1, 2, 3}
    /\ FailureCondition(chain.calls[1]) = "transport"
    /\ FailureCondition(chain.calls[2]) = "other"
    /\ FailureCondition(chain.calls[3]) = "empty"
    /\ chain.calls[1].ret[1].error_code = chain.calls[2].ret[1].error_code

RECURSIVE SumAdded(_)
SumAdded(ws) ==
    IF ws = {} THEN 0
    ELSE LET w == CHOOSE x \in ws : TRUE IN workers[w].added + SumAdded(ws \ {w})

NonDecreasing(seq) == \A i \in 1..(Len(seq) - 1) : seq[i] <= seq[i + 1]

\* C16 as stated: with google_trans running in several threads at once, no
\* increment of the wait is lost (the wait is the baseline plus every increment
\* added) and no thread reads a smaller wait than it has read before.
C16_NoLostIncrement ==
    /\ (\A w \in Workers : workers[w].pc # "w_store") =>
          google_trans_wait = BaselineWait + SumAdded(Workers)
    /\ \A w \in Workers : NonDecreasing(workers[w].reads)

ProviderCalls == { i \in 1..Len(chain.calls) : chain.calls[i].kind = "provider" }

\* C17: in one translate_with_providers invocation the k-th call goes to the
\* k-th configured provider, every call has returned before the next is made,
\* a provider is called only after all before it have failed and never twice,
\* and providers that share a name are each called: when the fallback is
\* reached every configured provider has been called once.
C17_ProvidersInOrderOnce ==
    LET n == Len(cfg.providers)
    IN /\ \A i \in ProviderCalls :
            /\ chain.calls[i].idx = i
            /\ i <= n
            /\ chain.calls[i].ret # None
            /\ \A j \in ProviderCalls :
                 /\ (j < i) => ProviderFailed(chain.calls[j])
                 /\ (chain.calls[j].idx = chain.calls[i].idx) => (j = i)
       /\ (op = "movie" /\ pc = "c_loop") =>
             (chain.idx = Len(chain.calls) + 1 /\ chain.idx <= n /\ GoogleCalls = {})
       /\ (GoogleCalls # {}) => (ProviderCalls = 1..n)
       /\ \A i \in 1..Len(chain.errors) :
            ProviderFailed(chain.calls[i]) /\ chain.errors[i][1] = ConfiguredName(i)

\* The third provider has the name of the first, which failed: it is called all
\* the same, after the second, and its translation is returned.
C17_Witness ==
    /\ pc = "c_ret"
    /\ Len(cfg.providers) = 3
    /\ cfg.providers[1].name = cfg.providers[3].name
    /\ ProviderCalls = {1, 2, 3}
    /\ ProviderReturnedTranslation(chain.calls[3])
    /\ Len(chain.errors) = 2
    /\ chain.errors[1][1] = cfg.providers[3].name

OnlyThrottledSoFar ==
    /\ g.statuses # <<>>
    /\ g.raised = None
    /\ \A i \in 1..Len(g.statuses) : g.statuses[i] = TooManyRequests

\* C18: the retry loop of google_trans has no cap: after any number of 429
\* responses and nothing else the call has not returned and its next step is
\* another request; a 429 is never returned as the call's error; and a call
\* whose endpoint stops answering 429 does return (or is left by an exception
\* of the request).
C18_LoopEndsOnlyOnOtherResponse ==
    /\ [](OnlyThrottledSoFar => (pc = "g_loop" /\ gresult = None))
    /\ [][ OnlyThrottledSoFar =>
              (Len(g'.statuses) = Len(g.statuses) + 1 \/ g'.raised # None) ]_vars
    /\ []((gresult # None /\ "error_code" \in DOMAIN gresult[1]) =>
             gresult[1].error_code # TooManyRequests)
    /\ ((pc = "g_get") ~> (pc \in {"g_ret", "g_raised"}))

C18_Witness ==
    /\ pc = "g_loop"
    /\ OnlyThrottledSoFar
    /\ Len(g.statuses) = 3
    /\ Len(g.sleeps) = 2

\* The name test_translation_providers reports for the provider at position i.
ReportedName(i) ==
    IF cfg.providers[i].name # "" THEN <<cfg.providers[i].name>>
    ELSE <<cfg.providers[i].model, "@", cfg.providers[i].base_url>>

\* C19: test_translation_providers records one result for each configured
\* provider, in order and whether or not an earlier one succeeded, then calls
\* google_trans once and records its result: it returns n + 1 results, each a
\* success or a failure; it catches what google_trans raises, and no step of it
\* changes the MovieInfo.
C19_SelfTestCoversAll ==
    /\ [](op = "selftest" =>
            LET n == Len(cfg.providers)
                results == selftest.results
            IN /\ Len(results) <= n + 1
               /\ \A i \in 1..Len(results) :
                    /\ results[i].status \in {"success", "failed"}
                    /\ results[i].provider = IF i <= n THEN ReportedName(i) ELSE <<"Google">>
                    /\ (results[i].status = "success") <=> ("translation" \in DOMAIN results[i])
               /\ (pc = "t_loop") => (Len(results) = selftest.idx - 1 /\ selftest.idx <= n)
               /\ InGoogle => (Len(results) = n /\ g.texts = test_text)
               /\ (pc = "t_ret") => (Len(results) = n + 1)
               /\ pc \in {"t_loop", "g_get", "g_loop", "g_ret", "g_raised", "t_ret"})
    /\ [][ (op = "selftest" \/ op' = "selftest") => (info' = info /\ movie' = movie) ]_vars
    /\ [][ (op = "selftest" /\ pc \in {"g_ret", "g_raised"}) => pc' = "t_ret" ]_vars

\* The first provider succeeds, the second fails, the third succeeds, and
\* google_trans raises: four results.
C19_Witness ==
    /\ op = "selftest"
    /\ pc = "t_ret"
    /\ Len(cfg.providers) = 3
    /\ Len(selftest.results) = 4
    /\ selftest.results[1].status = "success"
    /\ selftest.results[2].status = "failed"
    /\ selftest.results[3].status = "success"
    /\ selftest.results[4] = [provider |-> <<"Google">>, status |-> "failed",
                              error |-> <<"ConnectionError()">>]

\* google_trans has received a response that is not a 429.
Responded(frame) ==
    frame.statuses # <<>> /\ frame.statuses[Len(frame.statuses)] # TooManyRequests

\* C20: a google_trans call that got k 429 responses and then another response
\* has slept k times for the wait, each time exactly the wait of that moment:
\* the first sleep is the wait the call found, each later one is 60 to 90 more
\* than the one before, and the last is the wait the call leaves; so the wait
\* was raised k - 1 times, and not at all for k = 0 or k = 1.
C20_SleepsAndIncreases ==
    Responded(g) =>
        LET k == Len(g.statuses) - 1
        IN /\ \A i \in 1..k : g.statuses[i] = TooManyRequests
           /\ Len(g.sleeps) = k + (IF gresult # None THEN 1 ELSE 0)
           /\ (k >= 1) => (g.sleeps[1] = g.wait0 /\ g.sleeps[k] = google_trans_wait)
           /\ \A i \in 1..(k - 1) : (g.sleeps[i + 1] - g.sleeps[i]) \in RandLo..RandHi
           /\ (k <= 1) => (google_trans_wait = g.wait0)
           /\ google_trans_wait >= g.wait0 + (k - 1) * RandLo
           /\ google_trans_wait <= g.wait0 + (IF k >= 1 THEN (k - 1) * RandHi ELSE 0)

\* A second call, which finds the wait raised, gets one 429 and then a 200: one
\* sleep of that wait, and the wait is as it was.
C20_Witness ==
    /\ pc = "g_ret"
    /\ g.statuses = <<TooManyRequests, StatusOK>>
    /\ g.wait0 = BaselineWait + 75
    /\ g.sleeps = <<BaselineWait + 75, Cooldown>>
    /\ google_trans_wait = g.wait0

Cooldowns(frame) == { i \in 1..Len(frame.sleeps) : frame.sleeps[i] = Cooldown }

\* C21: a google_trans call that returns a result, be it the body of a 200 or
\* the error dict of another status, at once or after any number of 429s, has
\* slept the cool-down exactly once, as its last sleep, in the step that took
\* the last response: after its last request and before it returned.
C21_CooldownBeforeEveryReturn ==
    /\ []((gresult # None) =>
            /\ g.sleeps # <<>>
            /\ Cooldowns(g) = {Len(g.sleeps)}
            /\ Len(g.sleeps) = Len(g.statuses)
            /\ g.statuses[Len(g.statuses)] # TooManyRequests)
    /\ [][ (gresult = None /\ gresult' # None) =>
              /\ Len(g'.statuses) = Len(g.statuses) + 1
              /\ g'.sleeps[Len(g'.sleeps)] = Cooldown
              /\ pc' = "g_ret" ]_vars

\* An error status after one 429: one sleep of the wait, then the cool-down.
C21_Witness ==
    /\ pc = "g_ret"
    /\ g.statuses = <<TooManyRequests, 500>>
    /\ g.sleeps = <<g.wait0, Cooldown>>
    /\ gresult = Some([error_code |-> 500, error_msg |-> "Internal Server Error"])

\* C22: over any run of translate_movie_info calls on one MovieInfo, the
\* title chain runs only while no ori_title is recorded and is handed the
\* scraped title; once ori_title is recorded, neither it nor the title is
\* assigned again, so ori_title, when set, is the scraped title. The plot has
\* no such guard: a plot that is present, enabled and not skipped is sent to
\* the chain whatever ori_plot holds.
C22_TitleTranslatedOnce ==
    /\ []((info.ori_title # None) => (info.ori_title = Some(TitleJa)))
    /\ []((field = "title") =>
            /\ info.ori_title = None
            /\ info.title = TitleJa
            /\ chain.texts = TitleJa)
    /\ [][ /\ (info.ori_title # None) =>
                /\ info'.ori_title = info.ori_title
                /\ info'.title = info.title
                /\ field' # "title"
           /\ (info.ori_title = None) =>
                \/ info'.ori_title = None /\ info'.title = info.title
                \/ info'.ori_title = Some(info.title) /\ field = "title"
           /\ ( /\ pc = "m_plot"
                /\ info.plot # <<>>
                /\ cfg.fields_plot
                /\ ~(cfg.auto_detect_language
                       /\ should_skip_translation(info.plot, cfg.target_language)) )
                => (field' = "plot" /\ chain'.texts = info.plot) ]_vars

\* The second call on a translated MovieInfo has left the title alone and has
\* translated the plot again: ori_plot now holds the first call's translation.
C22_Witness ==
    /\ ops >= 2
    /\ pc = "m_ret"
    /\ movie.status.title = "unwanted"
    /\ movie.status.plot = "translated"
    /\ info.ori_title = Some(TitleJa)
    /\ info.title = Yiwen
    /\ info.ori_plot # None
    /\ info.ori_plot # Some(PlotJa)
    /\ info.ori_plot = Some(movie.info0[1].plot)
    /\ movie.info0[1].ori_plot = Some(PlotJa)

====
